---------------------------- MODULE Spec2Model ----------------------------
(***************************************************************************)
(* A model of the SoundCloud MCP server (src/mcp): token resolution at     *)
(* server construction, the search_tracks tool, the SoundCloudClient query *)
(* builder and request sender, and the track formatter; and of the token   *)
(* exchange functions and script of src/auth.py.                           *)
(*                                                                         *)
(* Python values are modelled as follows.  str and int are TLA+ strings    *)
(* and integers.  A dict, a list and None are the tagged records JDict,    *)
(* JList and JNull, so that a position that may hold any of them (the      *)
(* decoded response body, a track, a track's user) can be inspected with   *)
(* isinstance.  An optional keyword argument that is None (or left out) is *)
(* a key absent from the argument mapping.  A raised exception is the      *)
(* record Exc(type, msg); Ok(v) is a normal return.                        *)
(***************************************************************************)
EXTENDS Integers, Sequences, FiniteSets, TLC

VARIABLES
    environ,            \* os.environ, restricted to SOUNDCLOUD_ACCESS_TOKEN
    tokenFile,          \* the content of soundcloud_token.json
    serverPc,           \* "start" before create_server has run, then "running"
    access_token,       \* the access_token argument create_server was given
    soundcloud_client,  \* the closure variable of create_server: a client or None
    calls,              \* one record per tool-invocation slot of the runtime
    auth                \* the run of src/auth.py in progress, if any

vars == <<environ, tokenFile, serverPc, access_token, soundcloud_client, calls,
          auth>>

-----------------------------------------------------------------------------
(* Bounds of the model. *)

\* Longest genre list and tag list passed to the tool.
MaxList == 2
\* Longest `collection` array in a provider response.
MaxTracks == 2
\* Longest track, in whole seconds, among the durations formatted.
MaxSeconds == 130

-----------------------------------------------------------------------------
(* Python values. *)

EmptyFn == [k \in {} |-> k]

JDict(f) == [t |-> "dict", d |-> f]
JList(s) == [t |-> "list", items |-> s]
JNull == [t |-> "null"]
\* a str in a position that may also hold None
JStr(s) == [t |-> "str", s |-> s]

IsDict(v) == v.t = "dict"
IsList(v) == v.t = "list"

Ok(v) == [t |-> "ok", v |-> v]
Exc(type, msg) == [t |-> "exc", type |-> type, msg |-> msg]
IsExc(r) == r.t = "exc"

\* dict.get(key, default) on the mapping of a JDict
Get(f, key, default) == IF key \in DOMAIN f THEN f[key] ELSE default

\* Python truthiness: {} , [] , "" and None are falsy
Truthy(v) ==
    CASE IsDict(v) -> v.d # EmptyFn
      [] IsList(v) -> v.items # <<>>
      [] v.t = "str" -> v.s # ""
      [] OTHER -> FALSE

\* sep.join(parts) for a list of str
RECURSIVE Join(_, _)
Join(parts, sep) ==
    IF parts = <<>> THEN ""
    ELSE IF Len(parts) = 1 THEN parts[1]
    ELSE parts[1] \o sep \o Join(Tail(parts), sep)

\* all sequences over S of length at most n
SeqsUpTo(S, n) == UNION {[1..k -> S] : k \in 0..n}

\* whether sub occurs in the string s
Contains(s, sub) ==
    \E i \in 1..(Len(s) - Len(sub) + 1) : SubSeq(s, i, i + Len(sub) - 1) = sub

-----------------------------------------------------------------------------
(* src/mcp/utils.py *)

FileMissing == [t |-> "missing"]
FileInvalid == [t |-> "invalid"]

\* get_access_token(): the environment variable if set and non-empty, else
\* the access_token field of the token file, else None
get_access_token(env, file) ==
    LET token == IF "SOUNDCLOUD_ACCESS_TOKEN" \in DOMAIN env
                 THEN JStr(env["SOUNDCLOUD_ACCESS_TOKEN"]) ELSE JNull
    IN IF Truthy(token) THEN token
       ELSE IF file = FileMissing \/ file = FileInvalid THEN JNull
       ELSE IF "access_token" \in DOMAIN file.d
            THEN file.d["access_token"] ELSE JNull

\* f"{seconds}", without the 02d
Pad2_unpadded(n) == ToString(n)

\* f"{seconds:02d}" for a non-negative int
Pad2(n) == IF n < 10 THEN "0" \o ToString(n) ELSE ToString(n)

format_duration(milliseconds) ==
    LET seconds0 == milliseconds \div 1000
        minutes == seconds0 \div 60
        seconds == seconds0 % 60
    IN ToString(minutes) \o ":" \o Pad2(seconds)

\* format_track_info subscripting the track (track['title'], ...) instead
\* of using .get with a default: a missing field raises KeyError
format_track_info_subscript(track) ==
    IF ~Truthy(track) \/ ~IsDict(track) THEN Ok("Invalid track data")
    ELSE
      LET f == track.d
      IN IF "title" \notin DOMAIN f THEN Exc("KeyError", "'title'")
         ELSE IF "user" \notin DOMAIN f THEN Exc("KeyError", "'user'")
         ELSE IF ~IsDict(f["user"])
         THEN Exc("TypeError", "'NoneType' object is not subscriptable")
         ELSE IF "username" \notin DOMAIN f["user"].d
         THEN Exc("KeyError", "'username'")
         ELSE IF "duration" \notin DOMAIN f THEN Exc("KeyError", "'duration'")
         ELSE
           LET parts ==
                 << "Title: " \o f["title"],
                    "Artist: " \o f["user"].d["username"],
                    "Duration: " \o format_duration(f["duration"]) >>
                 \o (IF "genre" \in DOMAIN f /\ f["genre"] # ""
                     THEN << "Genre: " \o f["genre"] >> ELSE <<>>)
                 \o (IF "permalink_url" \in DOMAIN f
                     THEN << "Link: " \o f["permalink_url"] >> ELSE <<>>)
           IN Ok(Join(parts, "\n"))

\* format_track_info(track): Ok(str), or the AttributeError that
\* track.get('user', {}).get raises when `user` is not a dict
format_track_info(track) ==
    IF ~Truthy(track) \/ ~IsDict(track) THEN Ok("Invalid track data")
    ELSE
      LET f == track.d
          user == Get(f, "user", JDict(EmptyFn))
      IN IF ~IsDict(user)
         THEN Exc("AttributeError", "'NoneType' object has no attribute 'get'")
         ELSE
           LET parts ==
                 << "Title: " \o Get(f, "title", "Unknown"),
                    "Artist: " \o Get(user.d, "username", "Unknown"),
                    "Duration: " \o format_duration(Get(f, "duration", 0)) >>
                 \o (IF "genre" \in DOMAIN f /\ f["genre"] # ""
                     THEN << "Genre: " \o f["genre"] >> ELSE <<>>)
                 \o (IF "permalink_url" \in DOMAIN f
                     THEN << "Link: " \o f["permalink_url"] >> ELSE <<>>)
           IN Ok(Join(parts, "\n"))

-----------------------------------------------------------------------------
(* src/mcp/soundcloud_client.py *)

api_base_url == "https://api.soundcloud.com"

\* SoundCloudClient(user_access_token)
SoundCloudClient(user_access_token) ==
    [t |-> "client", user_access_token |-> user_access_token]

\* Lines 90-91: q, only when a query is given
q_param(kw) ==
    IF "query" \in DOMAIN kw THEN "q" :> kw["query"] ELSE EmptyFn

\* the list joined with ", " instead of ","
list_param_spaced(kw, name) ==
    IF name \in DOMAIN kw THEN name :> Join(kw[name], ", ") ELSE EmptyFn

\* Lines 93-97: genres and tags, comma-joined, when the list is not None
list_param(kw, name) ==
    IF name \in DOMAIN kw THEN name :> Join(kw[name], ",") ELSE EmptyFn

\* the range with its upper bound left out
range_params_from_only(kw, name) ==
    IF name \in DOMAIN kw
    THEN (name \o "[from]") :> kw[name]["from"]
    ELSE EmptyFn

\* Lines 99-109: the [from] and [to] keys of bpm, duration and created_at
range_params(kw, name) ==
    IF name \in DOMAIN kw
    THEN (name \o "[from]") :> kw[name]["from"] @@ (name \o "[to]") :> kw[name]["to"]
    ELSE EmptyFn

\* the pagination flag as the str of a bool
paging_params_bool(kw) ==
    "limit" :> kw["limit"] @@ "linked_partitioning" :> "True"

\* Lines 111-114: limit and the pagination flag, always
paging_params(kw) ==
    "limit" :> kw["limit"] @@ "linked_partitioning" :> "1"

\* The query mapping SoundCloudClient.search_tracks builds from its keyword
\* arguments kw (a None argument is a key absent from kw; limit is always
\* passed).
search_params(kw) ==
    q_param(kw)
    @@ list_param(kw, "genres")
    @@ list_param(kw, "tags")
    @@ range_params(kw, "bpm")
    @@ range_params(kw, "duration")
    @@ range_params(kw, "created_at")
    @@ paging_params(kw)

\* The request _send_soundcloud_request hands to httpx for `endpoint`
soundcloud_request(client, endpoint, method, params) ==
    [ method |-> method,
      url |-> api_base_url \o "/" \o endpoint,
      accept |-> "application/json; charset=utf-8",
      Authorization |-> "Bearer " \o client.user_access_token,
      params |-> params,
      timeout |-> 30 ]

\* The outcomes of `await self.client.request(...)`
HttpResponse(code, body) ==
    [kind |-> "response", status_code |-> code, body |-> body]
HttpTimeout == [kind |-> "timeout"]
HttpFailure(cause) == [kind |-> "error", cause |-> cause]
\* a response body that is not JSON: response.json() raises
Undecodable == [t |-> "undecodable"]
JSONDecodeErrorMsg == "Expecting value: line 1 column 1 (char 0)"

\* response.raise_for_status() raises unless the status is a success
is_success(code) == 200 <= code /\ code <= 299

\* _send_soundcloud_request with the status code left out of the message
send_soundcloud_result_no_code(outcome) ==
    CASE outcome.kind = "response" ->
           IF ~is_success(outcome.status_code)
           THEN JDict("error" :> "HTTP error")
           ELSE IF outcome.body = Undecodable
                THEN JDict("error" :> JSONDecodeErrorMsg)
                ELSE outcome.body
      [] outcome.kind = "timeout" -> JDict("error" :> "Request timed out")
      [] OTHER -> JDict("error" :> outcome.cause)

\* What _send_soundcloud_request returns for an outcome of the request:
\* the decoded body, or the error dict of the except clause that matches
send_soundcloud_result(outcome) ==
    CASE outcome.kind = "response" ->
           IF ~is_success(outcome.status_code)
           THEN JDict("error" :> ("HTTP error: " \o ToString(outcome.status_code)))
           ELSE IF outcome.body = Undecodable
                THEN JDict("error" :> JSONDecodeErrorMsg)
                ELSE outcome.body
      [] outcome.kind = "timeout" -> JDict("error" :> "Request timed out")
      [] OTHER -> JDict("error" :> outcome.cause)

-----------------------------------------------------------------------------
(* src/mcp/server.py *)

\* The defaults of the tool's parameters `limit` and `format_results`
arg_limit(args) == Get(args, "limit", 10)
arg_format_results(args) == Get(args, "format_results", TRUE)

\* Lines 98-129: the keyword arguments search_tracks passes to the client.
\* The BPM, Duration and CreatedAt models become from/to dictionaries.
client_kwargs(args) ==
    (IF "query" \in DOMAIN args THEN "query" :> args["query"] ELSE EmptyFn)
    @@ (IF "genres" \in DOMAIN args THEN "genres" :> args["genres"] ELSE EmptyFn)
    @@ (IF "tags" \in DOMAIN args THEN "tags" :> args["tags"] ELSE EmptyFn)
    @@ (IF "bpm" \in DOMAIN args
        THEN "bpm" :> ("from" :> args["bpm"].min_bpm @@ "to" :> args["bpm"].max_bpm)
        ELSE EmptyFn)
    @@ (IF "duration" \in DOMAIN args
        THEN "duration" :> ("from" :> args["duration"].min_duration
                            @@ "to" :> args["duration"].max_duration)
        ELSE EmptyFn)
    @@ (IF "created_at" \in DOMAIN args
        THEN "created_at" :> ("from" :> args["created_at"].min_created_at
                              @@ "to" :> args["created_at"].max_created_at)
        ELSE EmptyFn)
    @@ "limit" :> arg_limit(args)

\* the result of the guard at lines 92-95
NotInitializedError ==
    JDict("error" :>
          "SoundCloud client not initialized. Please set SOUNDCLOUD_ACCESS_TOKEN.")

\* len(response.get("collection", [])) if isinstance(response, dict) else 0
track_count(response) ==
    IF ~IsDict(response) THEN Ok(0)
    ELSE LET coll == Get(response.d, "collection", JList(<<>>))
         IN IF IsList(coll) THEN Ok(Len(coll.items))
            ELSE Exc("TypeError", "object of type 'NoneType' has no len()")

\* the loop with the tracks prepended instead of appended
RECURSIVE formatted_tracks_reversed(_)
formatted_tracks_reversed(items) ==
    IF items = <<>> THEN Ok(<<>>)
    ELSE LET head == format_track_info(Head(items))
         IN IF IsExc(head) THEN head
            ELSE LET rest == formatted_tracks_reversed(Tail(items))
                 IN IF IsExc(rest) THEN rest
                    ELSE Ok(rest.v \o <<head.v>>)

\* the loop of lines 141-143: the formatted tracks in order, or the first
\* exception format_track_info raises
RECURSIVE formatted_tracks(_)
formatted_tracks(items) ==
    IF items = <<>> THEN Ok(<<>>)
    ELSE LET head == format_track_info(Head(items))
         IN IF IsExc(head) THEN head
            ELSE LET rest == formatted_tracks(Tail(items))
                 IN IF IsExc(rest) THEN rest
                    ELSE Ok(<<head.v>> \o rest.v)

\* the formatted result without its raw_data entry
formatted_result_no_raw(n, tracks, response) ==
    JDict("count" :> n @@ "tracks" :> JList(tracks))

\* Lines 145-149: the formatted result
formatted_result(n, tracks, response) ==
    JDict("count" :> n @@ "tracks" :> JList(tracks) @@ "raw_data" :> response)

\* line 151 with `and` for `or`
unformatted_result_and(response) ==
    IF Truthy(response) THEN JDict("error" :> "No results found") ELSE response

\* Line 151: response or {"error": "No results found"}
unformatted_result(response) ==
    IF Truthy(response) THEN response ELSE JDict("error" :> "No results found")

\* Lines 131-151: what the body of the try block makes of the client's
\* response: Ok(value returned) or the exception raised
search_tracks_body(args, response) ==
    IF IsDict(response) /\ "error" \in DOMAIN response.d THEN Ok(response)
    ELSE
      LET n == track_count(response)
      IN IF IsExc(n) THEN n
         ELSE IF arg_format_results(args) /\ n.v > 0
              THEN LET tracks == formatted_tracks(response.d["collection"].items)
                   IN IF IsExc(tracks) THEN tracks
                      ELSE Ok(formatted_result(n.v, tracks.v, response))
              ELSE Ok(unformatted_result(response))

\* search_tracks without its try/except: an exception of the body escapes
search_tracks_return_unguarded(args, response) ==
    LET r == search_tracks_body(args, response)
    IN IF IsExc(r) THEN r ELSE r.v

\* Lines 97-155: the try/except around the body: every Exception becomes
\* an error dict.  The value is what the tool returns to the runtime; an
\* Exc value would be an exception that escapes to the runtime.
search_tracks_return(args, response) ==
    LET r == search_tracks_body(args, response)
    IN IF IsExc(r)
       THEN JDict("error" :> ("Failed to search tracks: " \o r.msg))
       ELSE r.v

\* create_server without the `if user_access_token else None` of line 56: a
\* client is built whatever the token is (None renders as "None")
create_server_client_always(token, env, file) ==
    LET user_access_token ==
          IF Truthy(token) THEN token
          ELSE get_access_token(env, file)
    IN IF Truthy(user_access_token)
       THEN SoundCloudClient(user_access_token.s)
       ELSE SoundCloudClient("None")

\* Lines 50-56: the client create_server builds, or None without a token
create_server_client(token, env, file) ==
    LET user_access_token ==
          IF Truthy(token) THEN token
          ELSE get_access_token(env, file)
    IN IF Truthy(user_access_token)
       THEN SoundCloudClient(user_access_token.s)
       ELSE JNull

IsClient(x) == x.t = "client"

-----------------------------------------------------------------------------
(* src/auth.py *)

token_url == "https://secure.soundcloud.com/oauth/token"

\* SOUNDCLOUD_CLIENT_ID and SOUNDCLOUD_CLIENT_SECRET, with the values of the
\* example in the module's comment
CLIENT_ID == "my_client_id"
CLIENT_SECRET == "my_client_secret"

\* base64.b64encode(...).decode(), tabulated on the credentials above
b64encode(text) ==
    CASE text = "my_client_id:my_client_secret"
           -> "bXlfY2xpZW50X2lkOm15X2NsaWVudF9zZWNyZXQ="

\* the POST of get_soundcloud_token_client_credentials
client_credentials_request ==
    [ method |-> "POST",
      url |-> token_url,
      accept |-> "application/json; charset=utf-8",
      content_type |-> "application/x-www-form-urlencoded",
      Authorization |-> "Basic " \o b64encode(CLIENT_ID \o ":" \o CLIENT_SECRET),
      data |-> [grant_type |-> "client_credentials"] ]

\* the POST of refresh_soundcloud_token(refresh_token)
refresh_request(refresh_token) ==
    [ method |-> "POST",
      url |-> token_url,
      accept |-> "application/json; charset=utf-8",
      content_type |-> "application/x-www-form-urlencoded",
      data |-> [grant_type |-> "refresh_token",
                client_id |-> CLIENT_ID,
                client_secret |-> CLIENT_SECRET,
                refresh_token |-> refresh_token] ]

\* requests' Response.raise_for_status(): raises for 4xx and 5xx
raises_for_status(status_code) == status_code >= 400 /\ status_code < 600

\* the functions returning "" as the token when the exchange fails
token_result_placeholder(outcome) ==
    IF outcome.kind # "response" THEN Ok(JStr(""))
    ELSE IF raises_for_status(outcome.status_code) THEN Ok(JStr(""))
    ELSE IF outcome.body = Undecodable THEN Ok(JStr(""))
    ELSE IF ~IsDict(outcome.body) THEN Ok(JStr(""))
    ELSE IF "access_token" \notin DOMAIN outcome.body.d THEN Ok(JStr(""))
    ELSE Ok(outcome.body.d["access_token"])

\* The try/except of both functions, from the outcome of requests.post to
\* the value returned: response.json()["access_token"], or None when
\* requests.post, raise_for_status, json() or the subscript raises
token_result(outcome) ==
    IF outcome.kind # "response" THEN Ok(JNull)
    ELSE IF raises_for_status(outcome.status_code) THEN Ok(JNull)
    ELSE IF outcome.body = Undecodable THEN Ok(JNull)
    ELSE IF ~IsDict(outcome.body) THEN Ok(JNull)
    ELSE IF "access_token" \notin DOMAIN outcome.body.d THEN Ok(JNull)
    ELSE Ok(outcome.body.d["access_token"])

\* Line 113: json.dump({"token": token}, f)
saved_token_file(token) == JDict("token" :> token)

-----------------------------------------------------------------------------
(* The inputs the model draws from. *)

\* the values of SOUNDCLOUD_ACCESS_TOKEN: unset, empty, set
Environs == {EmptyFn,
             "SOUNDCLOUD_ACCESS_TOKEN" :> "",
             "SOUNDCLOUD_ACCESS_TOKEN" :> "tokE"}
\* soundcloud_token.json: missing, not JSON, with an access_token field,
\* with a token field
TokenFiles == {FileMissing, FileInvalid,
               JDict("access_token" :> JStr("tokF")),
               JDict("token" :> JStr("tokT"))}
\* the access_token argument of create_server
TokenArgs == {JNull, JStr(""), JStr("tokA")}

OptArg(key, values) == {EmptyFn} \cup {key :> v : v \in values}

GenreNames == {"House", "Pop"}
TagNames == {"chill"}
BpmRanges == {[min_bpm |-> 120, max_bpm |-> 140], [min_bpm |-> 0, max_bpm |-> 0]}
DurationRanges == {[min_duration |-> 60, max_duration |-> 300]}
CreatedAtRanges == {[min_created_at |-> "2024-01-01 00:00:00",
                     max_created_at |-> "2024-12-31 23:59:59"]}

\* every combination of the tool's arguments over the values above
ToolArgs ==
    { q @@ g @@ tg @@ b @@ d @@ ca @@ l @@ fr :
        q \in OptArg("query", {"lofi"}),
        g \in OptArg("genres", SeqsUpTo(GenreNames, MaxList)),
        tg \in OptArg("tags", SeqsUpTo(TagNames, MaxList)),
        b \in OptArg("bpm", BpmRanges),
        d \in OptArg("duration", DurationRanges),
        ca \in OptArg("created_at", CreatedAtRanges),
        l \in OptArg("limit", {1, 50}),
        fr \in OptArg("format_results", {FALSE}) }

\* a few argument combinations, with and without formatting
SampleArgs ==
    { EmptyFn,
      "format_results" :> FALSE,
      "query" :> "lofi" @@ "bpm" :> [min_bpm |-> 120, max_bpm |-> 140]
          @@ "format_results" :> TRUE,
      "genres" :> <<"House", "Pop">> @@ "limit" :> 1 @@ "format_results" :> FALSE,
      "tags" :> <<>> @@ "limit" :> 50,
      "query" :> "lofi" @@ "genres" :> <<"Pop">> @@ "tags" :> <<"chill">>
          @@ "bpm" :> [min_bpm |-> 0, max_bpm |-> 0]
          @@ "duration" :> [min_duration |-> 60, max_duration |-> 300]
          @@ "created_at" :> [min_created_at |-> "2024-01-01 00:00:00",
                              max_created_at |-> "2024-12-31 23:59:59"] }

TrackFull ==
    JDict("title" :> "Song" @@ "user" :> JDict("username" :> "Ann")
          @@ "duration" :> 125000 @@ "genre" :> "House"
          @@ "permalink_url" :> "https://soundcloud.com/ann/song")
\* a track object with none of the fields the formatter reads
TrackBare == JDict("id" :> 7)
TrackNoGenre ==
    JDict("title" :> "Tune" @@ "user" :> JDict(EmptyFn) @@ "duration" :> 59000
          @@ "genre" :> "")
\* malformed elements: an empty object, null, and a track whose user is null
TrackEmpty == JDict(EmptyFn)
TrackUserNull == JDict("title" :> "Song" @@ "user" :> JNull)
Tracks == {TrackFull, TrackBare, TrackNoGenre, TrackEmpty, JNull, TrackUserNull}

NextHref == "https://api.soundcloud.com/tracks?cursor=2"

\* decoded JSON bodies of a response
Bodies ==
    { JDict("collection" :> JList(c) @@ "next_href" :> NextHref) :
        c \in SeqsUpTo(Tracks, MaxTracks) }
    \cup { JDict(EmptyFn),
           JDict("next_href" :> NextHref),
           JDict("collection" :> JList(<<>>)),
           JDict("collection" :> JList(<<TrackFull>>)),
           JDict("collection" :> JNull),
           JDict("error" :> "quota exceeded"),
           JDict("error" :> "quota exceeded" @@ "collection" :> JList(<<TrackFull>>)),
           JList(<<>>),
           JList(<<TrackFull>>),
           JStr("ok"),
           JNull }

StatusCodes == {302, 401, 500}
Causes == {"All connection attempts failed", ""}

\* every outcome of the HTTP request
Outcomes ==
    { HttpResponse(200, b) : b \in Bodies }
    \cup { HttpResponse(200, Undecodable), HttpResponse(204, Undecodable) }
    \cup { HttpResponse(code, JDict("error" :> "denied")) : code \in StatusCodes }
    \cup { HttpTimeout }
    \cup { HttpFailure(cause) : cause \in Causes }

SampleOutcomes ==
    { HttpResponse(200, JDict("collection" :> JList(<<TrackFull>>))),
      HttpResponse(401, JDict("error" :> "denied")),
      HttpTimeout }

CallIds == {1}

-----------------------------------------------------------------------------
(* The state machine. *)

NoOutcome == [kind |-> "none"]

IdleCall ==
    [pc |-> "idle", args |-> EmptyFn, sent |-> <<>>, outcome |-> NoOutcome,
     response |-> JNull, result |-> JNull]

\* no function of src/auth.py is running
IdleAuth ==
    [pc |-> "idle", fn |-> "", main |-> FALSE, posts |-> <<>>,
     outcome |-> NoOutcome, result |-> JNull]

Init ==
    /\ environ \in Environs
    /\ tokenFile \in TokenFiles
    /\ serverPc = "start"
    /\ access_token = JNull
    /\ soundcloud_client = JNull
    /\ calls = [c \in CallIds |-> IdleCall]
    /\ auth = IdleAuth

\* create_server(access_token)
CreateServer(token) ==
    /\ serverPc = "start"
    /\ serverPc' = "running"
    /\ access_token' = token
    /\ soundcloud_client' = create_server_client(token, environ, tokenFile)
    /\ UNCHANGED <<environ, tokenFile, calls, auth>>

\* search_tracks resolving the token anew on every invocation instead of
\* using the client create_server built
search_tracks_start_fresh_token(client, args) ==
    LET fresh == create_server_client(access_token, environ, tokenFile)
    IN IF ~IsClient(fresh)
       THEN [IdleCall EXCEPT !.pc = "returned", !.args = args,
                             !.result = NotInitializedError]
       ELSE [IdleCall EXCEPT
               !.pc = "awaiting", !.args = args,
               !.sent = << soundcloud_request(fresh, "tracks", "GET",
                                              search_params(client_kwargs(args))) >>]

\* search_tracks(**args) up to its first suspension: without a client it
\* returns the error of the guard; otherwise it builds the query and is
\* suspended in `await self.client.request(...)` with one request sent
search_tracks_start(client, args) ==
    IF ~IsClient(client)
    THEN [IdleCall EXCEPT !.pc = "returned", !.args = args,
                          !.result = NotInitializedError]
    ELSE [IdleCall EXCEPT
            !.pc = "awaiting", !.args = args,
            !.sent = << soundcloud_request(client, "tracks", "GET",
                                           search_params(client_kwargs(args))) >>]

\* the runtime invokes the tool with arguments drawn from `inputs`
Invoke(c, inputs) ==
    /\ serverPc = "running"
    /\ calls[c].pc = "idle"
    /\ \E args \in inputs :
          calls' = [calls EXCEPT ![c] = search_tracks_start(soundcloud_client, args)]
    /\ UNCHANGED <<environ, tokenFile, serverPc, access_token, soundcloud_client, auth>>

\* the provider answers, the transport fails, or the 30 s timeout expires:
\* the request completes with an outcome drawn from `outcomes`
Respond(c, outcomes) ==
    /\ calls[c].pc = "awaiting"
    /\ \E outcome \in outcomes :
          calls' = [calls EXCEPT ![c].pc = "responded", ![c].outcome = outcome]
    /\ UNCHANGED <<environ, tokenFile, serverPc, access_token, soundcloud_client, auth>>

\* search_tracks with one retry of a failed request
search_tracks_finish_retry(call) ==
    LET response == send_soundcloud_result(call.outcome)
    IN IF IsDict(response) /\ "error" \in DOMAIN response.d /\ Len(call.sent) < 2
       THEN [call EXCEPT !.pc = "awaiting",
                         !.sent = Append(@, @[1]),
                         !.outcome = NoOutcome]
       ELSE [call EXCEPT !.pc = "returned",
                         !.response = response,
                         !.result = search_tracks_return(call.args, response)]

\* search_tracks from the completion of the request to its return
search_tracks_finish(call) ==
    LET response == send_soundcloud_result(call.outcome)
    IN [call EXCEPT !.pc = "returned",
                    !.response = response,
                    !.result = search_tracks_return(call.args, response)]

\* the response kept in one place shared by all invocations: an invocation
\* resumes with the response of whichever request completed
Resume_shared_response(c) ==
    /\ calls[c].pc = "responded"
    /\ LET last == CHOOSE d \in DOMAIN calls : calls[d].pc = "responded"
           response == send_soundcloud_result(calls[last].outcome)
       IN calls' = [calls EXCEPT ![c] =
                      [calls[c] EXCEPT
                         !.pc = "returned",
                         !.response = response,
                         !.result = search_tracks_return(calls[c].args, response)]]
    /\ UNCHANGED <<environ, tokenFile, serverPc, access_token, soundcloud_client, auth>>

Resume(c) ==
    /\ calls[c].pc = "responded"
    /\ calls' = [calls EXCEPT ![c] = search_tracks_finish(calls[c])]
    /\ UNCHANGED <<environ, tokenFile, serverPc, access_token, soundcloud_client, auth>>

\* the runtime hands the result to its caller; the slot is free again
Deliver(c) ==
    /\ calls[c].pc = "returned"
    /\ calls' = [calls EXCEPT ![c] = IdleCall]
    /\ UNCHANGED <<environ, tokenFile, serverPc, access_token, soundcloud_client, auth>>

Next ==
    \/ \E tok \in TokenArgs : CreateServer(tok)
    \/ \E c \in CallIds : Invoke(c, SampleArgs)
    \/ \E c \in CallIds : Respond(c, Outcomes)
    \/ \E c \in CallIds : Resume(c)
    \/ \E c \in CallIds : Deliver(c)

Spec == Init /\ [][Next]_vars

\* The same machine over every combination of tool arguments, with a token
\* in the environment or none at all, and a few outcomes of the request.
InitQuery ==
    /\ environ \in {EmptyFn, "SOUNDCLOUD_ACCESS_TOKEN" :> "tokE"}
    /\ tokenFile = FileMissing
    /\ serverPc = "start"
    /\ access_token = JNull
    /\ soundcloud_client = JNull
    /\ calls = [c \in CallIds |-> IdleCall]
    /\ auth = IdleAuth

NextQuery ==
    \/ CreateServer(JNull)
    \/ \E c \in CallIds : Invoke(c, ToolArgs)
    \/ \E c \in CallIds : Respond(c, SampleOutcomes)
    \/ \E c \in CallIds : Resume(c)
    \/ \E c \in CallIds : Deliver(c)

SpecQuery == InitQuery /\ [][NextQuery]_vars

\* The token sources change while the server runs: the process environment
\* is modified, and soundcloud_token.json is written again (by a run of
\* src/auth.py, or by hand with a renewed token).
RewrittenFiles == TokenFiles \cup {JDict("access_token" :> JStr("tokG"))}
RenewedEnvirons == Environs \cup {"SOUNDCLOUD_ACCESS_TOKEN" :> "tokH"}

SetEnviron(envs) ==
    /\ serverPc = "running"
    /\ \E env \in envs \ {environ} : environ' = env
    /\ UNCHANGED <<tokenFile, serverPc, access_token, soundcloud_client, calls, auth>>

RewriteTokenFile(files) ==
    /\ serverPc = "running"
    /\ \E file \in files \ {tokenFile} : tokenFile' = file
    /\ UNCHANGED <<environ, serverPc, access_token, soundcloud_client, calls, auth>>

NextToken ==
    \/ \E tok \in TokenArgs : CreateServer(tok)
    \/ \E c \in CallIds : Invoke(c, SampleArgs)
    \/ \E c \in CallIds : Respond(c, SampleOutcomes)
    \/ \E c \in CallIds : Resume(c)
    \/ \E c \in CallIds : Deliver(c)
    \/ SetEnviron(RenewedEnvirons)
    \/ RewriteTokenFile(RewrittenFiles)

SpecToken == Init /\ [][NextToken]_vars

\* Two invocation slots: the runtime has two calls of the tool in flight at
\* once, interleaved at their suspension points.
ConcCallIds == {1, 2}

InitConc ==
    /\ environ \in {EmptyFn, "SOUNDCLOUD_ACCESS_TOKEN" :> "tokE"}
    /\ tokenFile = FileMissing
    /\ serverPc = "start"
    /\ access_token = JNull
    /\ soundcloud_client = JNull
    /\ calls = [c \in ConcCallIds |-> IdleCall]
    /\ auth = IdleAuth

NextConc ==
    \/ CreateServer(JNull)
    \/ \E c \in ConcCallIds : Invoke(c, SampleArgs)
    \/ \E c \in ConcCallIds : Respond(c, SampleOutcomes)
    \/ \E c \in ConcCallIds : Resume(c)
    \/ \E c \in ConcCallIds : Deliver(c)

SpecConc == InitConc /\ [][NextConc]_vars

\* The completion of the request split by its cause.  The provider may
\* answer or the transport may fail, at any time or never; the timeout of
\* 30 s the request is sent with (soundcloud_client.py:48) expires if
\* nothing else completes the request first.
ProviderAnswers(c, outcomes) == Respond(c, outcomes \ {HttpTimeout})

\* the request sent with timeout=None: no timeout ever expires
TimeoutExpires_never(c) ==
    /\ calls[c].pc = "awaiting"
    /\ FALSE
    /\ UNCHANGED vars

TimeoutExpires(c) == Respond(c, {HttpTimeout})

NextLive ==
    \/ \E tok \in TokenArgs : CreateServer(tok)
    \/ \E c \in CallIds : Invoke(c, SampleArgs)
    \/ \E c \in CallIds : ProviderAnswers(c, SampleOutcomes)
    \/ \E c \in CallIds : TimeoutExpires(c)
    \/ \E c \in CallIds : Resume(c)
    \/ \E c \in CallIds : Deliver(c)

\* Fairness: the timeout of a pending request does expire, and the event
\* loop does resume a coroutine whose request has completed.  Nothing is
\* assumed of the provider.
SpecLive ==
    /\ Init
    /\ [][NextLive]_vars
    /\ \A c \in CallIds : WF_vars(TimeoutExpires(c)) /\ WF_vars(Resume(c))

\* The same machine with one track per response, the track ranging over
\* every combination of present and absent fields and over many durations.
FieldTracks ==
    { JDict(t @@ u @@ d @@ g @@ l @@ o) :
        t \in OptArg("title", {"Song"}),
        u \in OptArg("user", {JDict(EmptyFn), JDict("username" :> "Ann")}),
        d \in OptArg("duration", {125000}),
        g \in OptArg("genre", {"", "House"}),
        l \in OptArg("permalink_url", {"https://soundcloud.com/ann/song"}),
        o \in OptArg("id", {7}) }

\* durations in milliseconds: every whole second up to MaxSeconds, with and
\* without a fraction of a second, and a few around one hour and 100 minutes
DurationSamples ==
    { sec * 1000 + frac : sec \in 0..MaxSeconds, frac \in {0, 999} }
    \cup {3599999, 3600000, 5999000, 6000000}

DurationTracks == { JDict("duration" :> ms) : ms \in DurationSamples }

TrackOutcomes ==
    { HttpResponse(200, JDict("collection" :> JList(<<track>>))) :
        track \in FieldTracks \cup DurationTracks }

NextFormat ==
    \/ CreateServer(JNull)
    \/ \E c \in CallIds : Invoke(c, {EmptyFn, "format_results" :> TRUE})
    \/ \E c \in CallIds : Respond(c, TrackOutcomes)
    \/ \E c \in CallIds : Resume(c)
    \/ \E c \in CallIds : Deliver(c)

SpecFormat == InitQuery /\ [][NextFormat]_vars

\* The functions of src/auth.py.  Each is split at requests.post, which
\* blocks until the provider answers or the transport fails.
RefreshTokens == {"ref1"}

\* outcomes of the POST to the token endpoint
AuthOutcomes ==
    { HttpResponse(200, JDict("access_token" :> JStr("tokN"))),
      HttpResponse(200, JDict("access_token" :> JStr("tokN")
                              @@ "refresh_token" :> JStr("ref2"))),
      HttpResponse(200, JDict("error" :> JStr("invalid_grant"))),
      HttpResponse(200, JList(<<>>)),
      HttpResponse(200, Undecodable),
      HttpResponse(304, JDict("access_token" :> JStr("tokOld"))),
      HttpResponse(400, JDict("error" :> JStr("invalid_grant"))),
      HttpResponse(401, JDict("error" :> JStr("invalid_client"))),
      HttpResponse(500, Undecodable),
      HttpFailure("Connection refused") }

\* python auth.py: __main__ calls get_soundcloud_token_client_credentials
RunAuthScript ==
    /\ auth.pc = "idle"
    /\ auth' = [IdleAuth EXCEPT !.pc = "posting",
                                !.fn = "get_soundcloud_token_client_credentials",
                                !.main = TRUE,
                                !.posts = <<client_credentials_request>>]
    /\ UNCHANGED <<environ, tokenFile, serverPc, access_token, soundcloud_client,
                   calls>>

\* get_soundcloud_token_client_credentials() called as a function
CallClientCredentials ==
    /\ auth.pc = "idle"
    /\ auth' = [IdleAuth EXCEPT !.pc = "posting",
                                !.fn = "get_soundcloud_token_client_credentials",
                                !.posts = <<client_credentials_request>>]
    /\ UNCHANGED <<environ, tokenFile, serverPc, access_token, soundcloud_client,
                   calls>>

\* refresh_soundcloud_token(refresh_token)
CallRefresh(tokens) ==
    /\ auth.pc = "idle"
    /\ \E refresh_token \in tokens :
          auth' = [IdleAuth EXCEPT !.pc = "posting",
                                   !.fn = "refresh_soundcloud_token",
                                   !.posts = <<refresh_request(refresh_token)>>]
    /\ UNCHANGED <<environ, tokenFile, serverPc, access_token, soundcloud_client,
                   calls>>

\* requests.post completes
AuthRespond(outcomes) ==
    /\ auth.pc = "posting"
    /\ \E outcome \in outcomes :
          auth' = [auth EXCEPT !.pc = "responded", !.outcome = outcome]
    /\ UNCHANGED <<environ, tokenFile, serverPc, access_token, soundcloud_client,
                   calls>>

\* the function returns; under __main__ the script then writes the token
\* file, whatever was returned
AuthFinish ==
    /\ auth.pc = "responded"
    /\ LET result == token_result(auth.outcome)
       IN /\ auth' = [auth EXCEPT !.pc = "returned", !.result = result]
          /\ tokenFile' = IF auth.main /\ ~IsExc(result)
                          THEN saved_token_file(result.v) ELSE tokenFile
    /\ UNCHANGED <<environ, serverPc, access_token, soundcloud_client, calls>>

\* the caller has taken the result, or the script has exited
AuthDone ==
    /\ auth.pc = "returned"
    /\ auth' = IdleAuth
    /\ UNCHANGED <<environ, tokenFile, serverPc, access_token, soundcloud_client,
                   calls>>

NextAuth ==
    \/ RunAuthScript
    \/ CallClientCredentials
    \/ CallRefresh(RefreshTokens)
    \/ AuthRespond(AuthOutcomes)
    \/ AuthFinish
    \/ AuthDone
    \/ CreateServer(JNull)
    \/ \E c \in CallIds : Invoke(c, {EmptyFn})
    \/ \E c \in CallIds : Respond(c, SampleOutcomes)
    \/ \E c \in CallIds : Resume(c)
    \/ \E c \in CallIds : Deliver(c)

SpecAuth == InitQuery /\ [][NextAuth]_vars

-----------------------------------------------------------------------------
(* Properties. *)

\* a dict with an `error` key
HasError(r) == IsDict(r) /\ "error" \in DOMAIN r.d

\* a token is supplied by one of the three sources
TokenInEnviron ==
    "SOUNDCLOUD_ACCESS_TOKEN" \in DOMAIN environ
    /\ environ["SOUNDCLOUD_ACCESS_TOKEN"] # ""
TokenInFile ==
    /\ IsDict(tokenFile)
    /\ \E k \in {"access_token", "token"} :
          k \in DOMAIN tokenFile.d /\ Truthy(tokenFile.d[k])
TokenConfigured == Truthy(access_token) \/ TokenInEnviron \/ TokenInFile

\* the request of the invocation ended 2xx with a body that decodes as JSON
DecodedOk(call) ==
    /\ call.outcome.kind = "response"
    /\ is_success(call.outcome.status_code)
    /\ call.outcome.body # Undecodable

\* the invocation took a failure path: no client, a failed request, an
\* undecodable body, or a payload whose processing raises
FailurePath(call) ==
    \/ call.sent = <<>>
    \/ call.outcome.kind \in {"timeout", "error"}
    \/ /\ call.outcome.kind = "response"
       /\ \/ ~is_success(call.outcome.status_code)
          \/ call.outcome.body = Undecodable
          \/ IsExc(search_tracks_body(call.args, call.outcome.body))

\* C1: when no access token is configured (none passed to create_server,
\* none in the environment variable, none in the token file), every
\* invocation of search_tracks has returned at once with an error result
\* and has sent no HTTP request.
C1_NoTokenNoRequest ==
    (serverPc = "running" /\ ~TokenConfigured) =>
        \A c \in DOMAIN calls :
            calls[c].pc # "idle" =>
                /\ calls[c].pc = "returned"
                /\ HasError(calls[c].result)
                /\ calls[c].sent = <<>>

C1_Witness ==
    /\ serverPc = "running" /\ ~TokenConfigured
    /\ \E c \in DOMAIN calls :
          /\ calls[c].pc = "returned"
          /\ "genres" \in DOMAIN calls[c].args
          /\ calls[c].result = NotInitializedError

\* C2: no exception escapes search_tracks: whatever the arguments and the
\* outcome of the HTTP call, the invocation returns a value (never a raised
\* exception), and on every failure path the value carries an error message.
C2_NoExceptionEscapes ==
    \A c \in DOMAIN calls :
        calls[c].pc = "returned" =>
            /\ ~IsExc(calls[c].result)
            /\ calls[c].result.t \in {"dict", "list", "str"}
            /\ FailurePath(calls[c]) => HasError(calls[c].result)

\* a payload with a malformed track made the body of the tool raise, and
\* the invocation returned
C2_Witness ==
    \E c \in DOMAIN calls :
        /\ calls[c].pc = "returned"
        /\ DecodedOk(calls[c])
        /\ IsExc(search_tracks_body(calls[c].args, calls[c].outcome.body))
        /\ HasError(calls[c].result)

\* an element of `collection` that format_track_info can summarise: anything
\* but an object whose `user` is present and not an object
Formattable(e) ==
    ~IsDict(e) \/ "user" \notin DOMAIN e.d \/ IsDict(e.d["user"])

\* the `collection` of a decoded body, [] when absent
CollectionOf(body) == Get(body.d, "collection", JList(<<>>))

\* a body the tool reports as a success: a non-empty object without an
\* `error` key whose collection is absent or an array and, when the tracks
\* are to be formatted, holds only elements the formatter can summarise
SuccessBody(args, body) ==
    /\ IsDict(body)
    /\ body.d # EmptyFn
    /\ "error" \notin DOMAIN body.d
    /\ IsList(CollectionOf(body))
    /\ arg_format_results(args) =>
          \A i \in DOMAIN CollectionOf(body).items :
              Formattable(CollectionOf(body).items[i])

\* the three keys of a formatted result
FormattedKeys == {"count", "tracks", "raw_data"}

C4_TwoShapes ==
    \A c \in DOMAIN calls :
        calls[c].pc = "returned" =>
            /\ IsDict(calls[c].result)
            /\ \/ DOMAIN calls[c].result.d = {"error"}
               \/ DOMAIN calls[c].result.d = FormattedKeys

\* the formatted success record of an invocation
IsFormattedResult(call) ==
    /\ IsDict(call.result)
    /\ DOMAIN call.result.d = FormattedKeys
    /\ arg_format_results(call.args)
    /\ DecodedOk(call)
    /\ call.result.d["raw_data"] = call.outcome.body
    /\ call.result.d["count"] = Len(call.result.d["tracks"].items)
    /\ call.result.d["count"] >= 1

\* the decoded provider body returned as it came: formatting was not asked
\* for, or the body holds no tracks, or it carries an `error` key
IsRawBodyResult(call) ==
    /\ DecodedOk(call)
    /\ call.result = call.outcome.body
    /\ \/ ~arg_format_results(call.args)
       \/ ~IsDict(call.outcome.body)
       \/ HasError(call.outcome.body)
       \/ CollectionOf(call.outcome.body).items = <<>>

\* C4 (amended): every value the tool returns has one of three shapes: an
\* error record {error: string}; a success record {count, tracks, raw_data}
\* with count = len(tracks) >= 1 (only when format_results is true); or the
\* decoded provider body itself, unchanged (when format_results is false, or
\* the body holds no tracks, or the body carries an `error` key).
C4_ThreeShapes ==
    \A c \in DOMAIN calls :
        calls[c].pc = "returned" =>
            \/ /\ IsDict(calls[c].result)
               /\ DOMAIN calls[c].result.d = {"error"}
            \/ IsFormattedResult(calls[c])
            \/ IsRawBodyResult(calls[c])

\* with format_results=false a body with tracks came back raw, and with
\* format_results=true a formatted record came back
C4_Witness ==
    \E c \in DOMAIN calls :
        /\ calls[c].pc = "returned"
        /\ ~arg_format_results(calls[c].args)
        /\ calls[c].result = JDict("collection" :> JList(<<TrackFull>>))

C6_FailureKinds ==
    \A c \in DOMAIN calls :
        (calls[c].pc = "returned" /\ calls[c].sent # <<>>) =>
            LET o == calls[c].outcome
                r == calls[c].response
            IN /\ (o.kind = "response" /\ ~is_success(o.status_code)) =>
                    /\ HasError(r)
                    /\ Contains(r.d["error"], ToString(o.status_code))
                    /\ calls[c].result = r
               /\ o.kind = "timeout" =>
                    /\ r = JDict("error" :> "Request timed out")
                    /\ calls[c].result = r
               /\ o.kind = "error" =>
                    /\ HasError(r)
                    /\ Contains(r.d["error"], o.cause)
                    /\ calls[c].result = r
               /\ (o.kind = "response" /\ is_success(o.status_code)
                   /\ o.body = Undecodable) =>
                    /\ HasError(r)
                    /\ Contains(r.d["error"], JSONDecodeErrorMsg)
                    /\ calls[c].result = r

\* a 401 was reported
C6_Witness ==
    \E c \in DOMAIN calls :
        /\ calls[c].pc = "returned"
        /\ calls[c].outcome.kind = "response"
        /\ calls[c].outcome.status_code = 401
        /\ calls[c].result = JDict("error" :> "HTTP error: 401")

\* C7: single attempt: an invocation has sent at most one request, exactly
\* one GET once it is past the guard with a client configured and none
\* without a client, and it still has sent only that one when it returns
\* after a failure.
C7_SingleAttempt ==
    \A c \in DOMAIN calls :
        /\ Len(calls[c].sent) <= 1
        /\ calls[c].pc # "idle" =>
              /\ IsClient(soundcloud_client) <=> Len(calls[c].sent) = 1
              /\ \A i \in DOMAIN calls[c].sent : calls[c].sent[i].method = "GET"
        /\ (calls[c].pc = "returned" /\ FailurePath(calls[c])) =>
              /\ Len(calls[c].sent) <= 1
              /\ HasError(calls[c].result)

\* an invocation returned after a timeout, and one after a 500
C7_Witness ==
    \E c \in DOMAIN calls :
        /\ calls[c].pc = "returned"
        /\ calls[c].outcome \in {HttpTimeout, HttpResponse(500, JDict("error" :> "denied"))}
        /\ Len(calls[c].sent) = 1

\* the keys a query mapping may hold
QueryKeys ==
    {"q", "genres", "tags", "bpm[from]", "bpm[to]", "duration[from]",
     "duration[to]", "created_at[from]", "created_at[to]", "limit",
     "linked_partitioning"}
RangeNames == {"bpm", "duration", "created_at"}
ListNames == {"genres", "tags"}
FilterNames == {"query"} \cup ListNames \cup RangeNames

\* C8: the query mapping of every request holds limit (the requested one,
\* 10 when unspecified) and linked_partitioning = "1", holds no key for an
\* absent filter and no key outside the eleven of QueryKeys; with no filter
\* (and no limit) given it is exactly {limit: 10, linked_partitioning: "1"}.
C8_QueryKeys ==
    \A c \in DOMAIN calls :
        calls[c].sent # <<>> =>
            LET p == calls[c].sent[1].params
                a == calls[c].args
            IN /\ "limit" \in DOMAIN p
               /\ p["limit"] = (IF "limit" \in DOMAIN a THEN a["limit"] ELSE 10)
               /\ "linked_partitioning" \in DOMAIN p
               /\ p["linked_partitioning"] = "1"
               /\ DOMAIN p \subseteq QueryKeys
               /\ "query" \notin DOMAIN a => "q" \notin DOMAIN p
               /\ \A name \in ListNames :
                     name \notin DOMAIN a => name \notin DOMAIN p
               /\ \A name \in RangeNames :
                     name \notin DOMAIN a =>
                         /\ (name \o "[from]") \notin DOMAIN p
                         /\ (name \o "[to]") \notin DOMAIN p
               /\ (DOMAIN a \cap (FilterNames \cup {"limit"}) = {}) =>
                     p = ("limit" :> 10 @@ "linked_partitioning" :> "1")

\* a request without any filter went out with the two keys
C8_Witness ==
    \E c \in DOMAIN calls :
        /\ calls[c].pc = "awaiting"
        /\ calls[c].args = EmptyFn
        /\ DOMAIN calls[c].sent[1].params = {"limit", "linked_partitioning"}

\* C9: for bpm, duration and created_at, the [from] and [to] keys are in
\* the query together exactly when the range is given to the tool, with
\* the range's min and max as their values; a call with only a bpm range
\* emits bpm[from], bpm[to], limit and linked_partitioning and nothing else.
C9_RangeKeys ==
    \A c \in DOMAIN calls :
        calls[c].sent # <<>> =>
            LET p == calls[c].sent[1].params
                a == calls[c].args
            IN /\ \A name \in RangeNames :
                     /\ (name \o "[from]") \in DOMAIN p <=> name \in DOMAIN a
                     /\ (name \o "[to]") \in DOMAIN p <=> name \in DOMAIN a
                     /\ name \in DOMAIN a =>
                           /\ p[name \o "[from]"] = a[name]["min_" \o name]
                           /\ p[name \o "[to]"] = a[name]["max_" \o name]
               /\ DOMAIN a \cap FilterNames = {"bpm"} =>
                     DOMAIN p = {"bpm[from]", "bpm[to]", "limit",
                                 "linked_partitioning"}

\* bpm (120, 140) went out as bpm[from]=120, bpm[to]=140
C9_Witness ==
    \E c \in DOMAIN calls :
        /\ calls[c].pc = "awaiting"
        /\ DOMAIN calls[c].args = {"bpm"}
        /\ calls[c].sent[1].params =
              ("bpm[from]" :> 120 @@ "bpm[to]" :> 140 @@ "limit" :> 10
               @@ "linked_partitioning" :> "1")

\* the elements separated by commas, built from the last element backwards
RECURSIVE CommaJoined(_)
CommaJoined(list) ==
    IF list = <<>> THEN ""
    ELSE IF Len(list) = 1 THEN list[1]
    ELSE CommaJoined(SubSeq(list, 1, Len(list) - 1)) \o "," \o list[Len(list)]

\* C10 as stated: a genres (tags) key in the query means the collection was
\* given and is non-empty; an empty collection produces no key.
C10_NoKeyForEmptyList ==
    \A c \in DOMAIN calls :
        calls[c].sent # <<>> =>
            \A name \in ListNames :
                name \in DOMAIN calls[c].sent[1].params =>
                    /\ name \in DOMAIN calls[c].args
                    /\ calls[c].args[name] # <<>>

\* C10 (amended): the genres (tags) key is in the query exactly when the
\* collection is given (not None), also when it is empty, and its value is
\* the elements joined with "," in the order given, which is "" for an
\* empty collection; only an absent collection produces no key.
C10_ListKeys ==
    \A c \in DOMAIN calls :
        calls[c].sent # <<>> =>
            LET p == calls[c].sent[1].params
                a == calls[c].args
            IN \A name \in ListNames :
                  /\ name \in DOMAIN p <=> name \in DOMAIN a
                  /\ name \in DOMAIN a => p[name] = CommaJoined(a[name])
                  /\ (name \in DOMAIN a /\ a[name] = <<>>) => p[name] = ""

\* two genres went out joined in their order, and an empty tag list as ""
C10_Witness ==
    \E c \in DOMAIN calls :
        /\ calls[c].pc = "awaiting"
        /\ "genres" \in DOMAIN calls[c].args
        /\ "tags" \in DOMAIN calls[c].args
        /\ calls[c].args["genres"] = <<"Pop", "House">>
        /\ calls[c].args["tags"] = <<>>
        /\ calls[c].sent[1].params["genres"] = "Pop,House"
        /\ calls[c].sent[1].params["tags"] = ""


\* the token sources, read now, would give a client other than the one
\* create_server built
SourcesChanged ==
    create_server_client(access_token, environ, tokenFile) # soundcloud_client

\* C11: The access token is resolved once, when create_server runs: from
\* then on the client and its token never change, whatever happens to the
\* environment variable and the token file, and every request any
\* invocation sends carries "Bearer " followed by that token.
C11_TokenResolvedOnce ==
    [][ /\ serverPc = "running" =>
              /\ soundcloud_client' = soundcloud_client
              /\ access_token' = access_token
        /\ \A c \in DOMAIN calls' :
              \A i \in 1..Len(calls'[c].sent) :
                 /\ IsClient(soundcloud_client')
                 /\ calls'[c].sent[i].Authorization
                      = "Bearer " \o soundcloud_client'.user_access_token ]_vars

\* a request is in flight after the token sources changed
C11_Witness ==
    /\ serverPc = "running"
    /\ SourcesChanged
    /\ \E c \in DOMAIN calls : calls[c].pc = "awaiting" /\ Len(calls[c].sent) = 1

\* the record of an invocation that runs alone with the arguments `args` and
\* whose request, if it sends one, completes with `outcome`
AloneAwaiting(args) == search_tracks_start(soundcloud_client, args)
AloneResponded(args, outcome) ==
    [AloneAwaiting(args) EXCEPT !.pc = "responded", !.outcome = outcome]
AloneReturned(args, outcome) ==
    IF AloneAwaiting(args).pc = "returned" THEN AloneAwaiting(args)
    ELSE search_tracks_finish(AloneResponded(args, outcome))

RunsAsAlone(call) ==
    CASE call.pc = "idle" -> call = IdleCall
      [] call.pc = "awaiting" -> call = AloneAwaiting(call.args)
      [] call.pc = "responded" -> call = AloneResponded(call.args, call.outcome)
      [] call.pc = "returned" -> call = AloneReturned(call.args, call.outcome)

\* C12: Concurrent invocations do not interfere.  A step of one invocation
\* changes neither the record of another invocation nor the state they
\* share (the client and the token sources), and after every step each
\* invocation's request and result are those of the same invocation run
\* alone with the same client: the query built from its own arguments, the
\* result determined by its own arguments and its own HTTP outcome.
C12_NoInterference ==
    [][ /\ \A c \in DOMAIN calls :
              calls'[c] # calls[c] =>
                 /\ \A d \in DOMAIN calls \ {c} : calls'[d] = calls[d]
                 /\ UNCHANGED <<environ, tokenFile, serverPc, access_token,
                                soundcloud_client, auth>>
        /\ \A c \in DOMAIN calls : RunsAsAlone(calls'[c]) ]_vars

\* one invocation has returned while another, with other arguments and
\* another outcome of its request, is still to resume
C12_Witness ==
    \E c, d \in DOMAIN calls :
       /\ c # d
       /\ calls[c].pc = "returned" /\ calls[c].sent # <<>>
       /\ calls[d].pc = "responded"
       /\ calls[c].args # calls[d].args
       /\ calls[c].outcome # calls[d].outcome

TimedOutError == JDict("error" :> "Request timed out")

OneTrackReturned(call) ==
    /\ call.pc = "returned"
    /\ DecodedOk(call)
    /\ IsDict(call.outcome.body)
    /\ DOMAIN call.outcome.body.d = {"collection"}
    /\ IsList(call.outcome.body.d["collection"])
    /\ Len(call.outcome.body.d["collection"].items) = 1
    /\ IsDict(call.outcome.body.d["collection"].items[1])
TrackOf(call) == call.outcome.body.d["collection"].items[1]

\* the result is the formatted result with one summary
OneSummary(call) ==
    /\ IsDict(call.result)
    /\ DOMAIN call.result.d = FormattedKeys
    /\ call.result.d["count"] = 1
    /\ Len(call.result.d["tracks"].items) = 1
SummaryOf(call) == call.result.d["tracks"].items[1]

\* whether `line` is one of the lines of the summary
HasLine(summary, line) ==
    Contains("\n" \o summary \o "\n", "\n" \o line \o "\n")

\* the summary gives the fields of the track that are present and the
\* defaults for those that are absent
DefaultsApplied(track, summary) ==
    LET f == track.d
    IN /\ HasLine(summary, "Title: " \o
                    (IF "title" \in DOMAIN f THEN f["title"] ELSE "Unknown"))
       /\ HasLine(summary, "Artist: " \o
                    (IF "user" \in DOMAIN f /\ "username" \in DOMAIN f["user"].d
                     THEN f["user"].d["username"] ELSE "Unknown"))
       /\ "duration" \notin DOMAIN f => HasLine(summary, "Duration: 0:00")
       /\ IF "genre" \in DOMAIN f /\ f["genre"] # ""
          THEN HasLine(summary, "Genre: " \o f["genre"])
          ELSE ~Contains(summary, "Genre: ")
       /\ IF "permalink_url" \in DOMAIN f
          THEN HasLine(summary, "Link: " \o f["permalink_url"])
          ELSE ~Contains(summary, "Link: ")

\* C14, as stated: every track object, the empty object included, is
\* formatted with the defaults for its absent fields.
C14_DefaultsForEveryObject ==
    \A c \in DOMAIN calls :
       OneTrackReturned(calls[c]) =>
          /\ OneSummary(calls[c])
          /\ DefaultsApplied(TrackOf(calls[c]), SummaryOf(calls[c]))

\* C14: A track object with any subset of title, user, user.username,
\* duration, genre and permalink_url absent never makes the search fail.
\* A non-empty object is summarised with title "Unknown", artist "Unknown"
\* and duration 0:00 for the absent fields, without a genre line when genre
\* is absent or empty and without a link line when permalink_url is absent;
\* the empty object {} is summarised as "Invalid track data".
C14_DefaultsForNonEmptyObject ==
    \A c \in DOMAIN calls :
       OneTrackReturned(calls[c]) =>
          /\ OneSummary(calls[c])
          /\ IF TrackOf(calls[c]).d = EmptyFn
             THEN SummaryOf(calls[c]) = "Invalid track data"
             ELSE DefaultsApplied(TrackOf(calls[c]), SummaryOf(calls[c]))

\* a non-empty track object with none of the fields has been summarised
C14_Witness ==
    \E c \in DOMAIN calls :
       /\ OneTrackReturned(calls[c])
       /\ TrackOf(calls[c]) = TrackBare
       /\ SummaryOf(calls[c]) = "Title: Unknown\nArtist: Unknown\nDuration: 0:00"

\* "M:SS" for ms milliseconds: M = ms div 60000 unpadded, SS = (ms div 1000)
\* mod 60 as two digits
MinutesSeconds(ms) ==
    LET M == ms \div 60000
        SS == (ms \div 1000) % 60
    IN ToString(M) \o ":" \o ToString(SS \div 10) \o ToString(SS % 10)

ExchangeFailed(outcome) ==
    \/ outcome.kind = "error"
    \/ outcome.kind = "response" /\ ~is_success(outcome.status_code)

\* the exchange gave no token: a transport failure, a 4xx or 5xx response,
\* or a body that is not a JSON object with an access_token
NoTokenObtained(outcome) ==
    \/ outcome.kind = "error"
    \/ /\ outcome.kind = "response"
       /\ \/ outcome.status_code \in 400..599
          \/ outcome.body = Undecodable
          \/ ~IsDict(outcome.body)
          \/ "access_token" \notin DOMAIN outcome.body.d

\* C15, as stated: each function performs one POST, and when the exchange
\* fails it fails with a TokenExchangeError carrying the status or message
\* instead of yielding a value.
C15_FailureRaises ==
    /\ auth.pc # "idle" => Len(auth.posts) = 1
    /\ (auth.pc = "returned" /\ ExchangeFailed(auth.outcome)) =>
          /\ IsExc(auth.result)
          /\ auth.result.type = "TokenExchangeError"

\* C15: Each of get_soundcloud_token_client_credentials and
\* refresh_soundcloud_token performs exactly one POST and never retries.
\* On a transport failure, a 4xx or 5xx response, or a body without an
\* access_token, it raises nothing and returns None; otherwise it returns
\* the access_token of the body.  The script writes what was returned,
\* None included, under `token` in the token file.
C15_FailureReturnsNone ==
    /\ auth.pc # "idle" =>
          /\ Len(auth.posts) = 1
          /\ auth.posts[1].method = "POST" /\ auth.posts[1].url = token_url
    /\ auth.pc = "returned" =>
          /\ ~IsExc(auth.result)
          /\ IF NoTokenObtained(auth.outcome)
             THEN auth.result.v = JNull
             ELSE auth.result.v = auth.outcome.body.d["access_token"]
          /\ auth.main => tokenFile = JDict("token" :> auth.result.v)

\* the script has run, the provider answered 401, and null is in the file
C15_Witness ==
    /\ auth.pc = "returned"
    /\ auth.main
    /\ auth.outcome.kind = "response" /\ auth.outcome.status_code = 401
    /\ auth.result = Ok(JNull)
    /\ tokenFile = JDict("token" :> JNull)

\* the token of the first source that supplies one: the argument of
\* create_server, the environment variable, the token file under
\* `access_token` or under `token`; None when no source supplies one
FirstAvailableToken ==
    IF Truthy(access_token) THEN access_token
    ELSE IF TokenInEnviron THEN JStr(environ["SOUNDCLOUD_ACCESS_TOKEN"])
    ELSE IF TokenInFile
    THEN IF "access_token" \in DOMAIN tokenFile.d
            /\ Truthy(tokenFile.d["access_token"])
         THEN tokenFile.d["access_token"]
         ELSE tokenFile.d["token"]
    ELSE JNull

\* C16: Once create_server has run, the client holds the token of the first
\* source that supplies one (the explicit argument, then the environment
\* variable, then the token file under `access_token` or `token`), and
\* there is no client only if no source supplies a token.
C16_FirstAvailableSource ==
    serverPc = "running" =>
       IF Truthy(FirstAvailableToken)
       THEN /\ IsClient(soundcloud_client)
            /\ soundcloud_client.user_access_token = FirstAvailableToken.s
       ELSE soundcloud_client = JNull


=============================================================================
